---- MODULE Spec2Model ----
(***************************************************************************)
(* Forwarding core of the switch-lan-play relay: the PeerManager registry  *)
(* (src/slp/peer_manager.rs), its send path over the bounded outbound      *)
(* queue, the SendWorker that drains it and the plugin hooks of            *)
(* src/slp/plugin.rs around routing.                                       *)
(***************************************************************************)
EXTENDS Integers, Sequences, FiniteSets, TLC

(* ------------------------------ universe ------------------------------ *)
\* Real (transport) addresses and virtual IPs observed by the relay.
Addrs == {"A", "B", "C"}
Vips == {"v1", "v2"}
NoAddr == "none"

\* Seconds of silence after which a peer counts as idle.
IdleThreshold == 30
\* The clock advances in steps of half the threshold.
TickSeconds == IdleThreshold \div 2
\* Number of clock steps explored.
MaxTicks == 3

\* Tasks that call into the PeerManager concurrently.
Tasks == {"t1", "t2"}
NoTask == "free"
\* Capacity of the outbound mpsc channel (the buffer given to mpsc::channel).
QueueBound == 2
\* Number of send_lan / send_broadcast calls explored.
MaxItems == 3

\* Frame payloads (Packet): byte strings of length 1 and 2.
Payloads == {<<1>>, <<2, 3>>}
\* Addresses used on the send path and the destination vectors handed to send_lan.
SendAddrs == {"A", "B"}
DestLists == {<<>>, <<"A", "B">>, <<"A", "A">>}
\* OutPacket: a Packet plus the destination set it was built with.
OutPackets == {[packet |-> p, addrs |-> a] : p \in Payloads, a \in {<<>>, <<"A">>}}
NoItem == [id |-> 0]

VARIABLES
    cache,        \* InnerPeerManager.cache: the Peer entries (real address -> Peer)
    map,          \* InnerPeerManager.map: virtual IP -> real address
    ignore_idle,  \* InnerPeerManager.ignore_idle
    now,          \* wall clock, in seconds
    claimant,     \* history: the last real address that sent a frame with source V
    registered,   \* history: addresses registered by peer_mut and not removed since
    demoted,      \* history: registered addresses demoted to Idle, silent ever since
    lock,         \* holder of the registry RwLock in write mode, or NoTask
    ret,          \* the observation of the last completed step
    queue,        \* the outbound mpsc channel: items (payload, addrs) in arrival order
    closed,       \* the receiving half of the channel is gone (SendWorker terminated)
    pc,           \* per task: "idle", "sending" (polling the channel), "suspended"
    loc,          \* per task: the locals of the call in progress
    cur,          \* SendWorker: the item it dequeued, or NoItem
    idx,          \* SendWorker: destinations of cur already sent to
    sends,        \* SendWorker: the socket sends issued for cur, in order
    nextId,       \* history: number of the next send call
    pending,      \* history: what the callers of the calls in flight asked to send
    enqOrder,     \* history: ids of the enqueued items, in enqueue order
    started,      \* history: ids of the items with at least one socket send
    done,         \* history: ids of the items the SendWorker finished
    vetoIn,       \* history: ids of the frames a plugin's in_packet refused
    vetoOut,      \* history: ids of the frames a plugin's out_packet refused
    routed,       \* history: ids of the frames get_dest_sockaddr was called for
    shortIds,     \* history: ids of the frames too short to hold the addressing header
    plugins       \* the plugin instances in registration order: [tag, rules]

regVars == <<cache, map, ignore_idle, now, claimant, registered, demoted>>
sendVars == <<queue, closed, pc, loc, nextId, pending, enqOrder>>
workerVars == <<cur, idx, sends, started, done>>
coreVars == <<vetoIn, vetoOut, routed, shortIds, plugins>>
vars == <<cache, map, ignore_idle, now, claimant, registered, demoted, lock, ret,
          queue, closed, pc, loc, cur, idx, sends, nextId, pending, enqOrder,
          started, done, vetoIn, vetoOut, routed, shortIds, plugins>>

(* --------------------------- plugin registry -------------------------- *)
\* The interceptors, in registration order.
PluginList == <<"blocker", "traffic">>
\* The type tags get_plugin is asked for: those registered and one that is not.
PluginTags == {"blocker", "traffic", "ldn_mitm"}
\* Values of --block-rules (main.rs: default "tcp:5000,tcp:21").
RuleSets == {<<"tcp:5000", "tcp:21">>, <<"udp:53">>}
DefaultRules == <<>>
\* Option::None as handed to the closure of get_plugin.
None == [tag |-> "None", rules |-> DefaultRules]
\* PluginType::new: one instance per registered type.
PluginNew(tag) == [tag |-> tag, rules |-> DefaultRules]
\* register_plugins: the instances in registration order.
RegisterPlugins == [i \in 1..Len(PluginList) |-> PluginNew(PluginList[i])]
\* The position of the instance registered under a tag, 0 when there is none.
FindPlugin(ps, tag) ==
    IF \E i \in 1..Len(ps) : ps[i].tag = tag
    THEN CHOOSE i \in 1..Len(ps) : ps[i].tag = tag
    ELSE 0
\* Blocker::set_block_rules.
SetBlockRules(b, rules) == [b EXCEPT !.rules = rules]
\* A closure that leaves the instance as it is.
BlockRulesClosureNoop(b, rules) == b
\* The closure main passes: |b| b.map(|b| b.set_block_rules(rules)).
BlockRulesClosure(b, rules) == IF b = None THEN None ELSE SetBlockRules(b, rules)

(* ------------------------------- Peer --------------------------------- *)
\* Peer::new: a session in Connected state stamped with the current time.
PeerNew(addr, t) == [addr |-> addr, state |-> "Connected", last |-> t]

\* touch: a frame arrived, refresh last-seen; the peer is Connected again.
Touch(p, t) == [p EXCEPT !.state = "Connected", !.last = t]

\* mark_idle_if_stale: demote a peer silent for at least the threshold.
MarkIdleIfStale(p, t) ==
    IF t - p.last >= IdleThreshold THEN [p EXCEPT !.state = "Idle"] ELSE p

is_connected(p) == p.state = "Connected"
is_idle(p) == p.state = "Idle"

(* --------------------------- HashMap helpers --------------------------- *)
HasKey(c, addr) == \E p \in c : p.addr = addr

\* cache.entry(addr).or_insert_with(|| Peer::new(addr, ..))
EntryOrInsert(c, addr, t) ==
    IF HasKey(c, addr) THEN c ELSE c \cup {PeerNew(addr, t)}

\* cache.remove(&addr)
CacheRemove(c, addr) == {p \in c : p.addr # addr}

\* A removal that also forgets the virtual IPs learned for the address.
MapAfterRemoveCascade(m, addr) == [v \in DOMAIN m |-> IF m[v] = addr THEN NoAddr ELSE m[v]]

\* remove touches the cache only: the learned table after it is the one before.
MapAfterRemove(m, addr) == m

\* A learning table that holds one entry at a time.
MapInsertOnly(m, vip, from) == [v \in DOMAIN m |-> IF v = vip THEN from ELSE NoAddr]

\* A learning table that keeps the first claimant of a virtual IP.
MapInsertKeepFirst(m, vip, from) == IF m[vip] = NoAddr THEN [m EXCEPT ![vip] = from] ELSE m

\* map.insert(src_ip, from): unconditional overwrite
MapInsert(m, vip, from) == [m EXCEPT ![vip] = from]

\* Every order in which a HashMap iteration may yield the elements of S.
Orderings(S) ==
    {s \in [1..Cardinality(S) -> S] : \A i, j \in 1..Cardinality(S) : s[i] = s[j] => i = j}

Range(s) == {s[i] : i \in DOMAIN s}

\* A flood that forgets to leave out the sender.
FloodFilterWithSender(c, ign, from) ==
    {p.addr : p \in {q \in c : ~ign \/ is_connected(q)}}

\* A flood that does not look at the ignore-idle flag.
FloodFilterAllStates(c, ign, from) ==
    {p.addr : p \in {q \in c : q.addr # from}}

\* The two filters of the flood branch of get_dest_sockaddr.
FloodFilter(c, ign, from) ==
    {p.addr : p \in {q \in c : (~ign \/ is_connected(q)) /\ q.addr # from}}

\* A unicast branch that does not send a frame back to its sender and skips a
\* target that is not a connected registered peer.
ResolveCheckedTarget(m, c, ign, from, dst) ==
    IF m[dst] # NoAddr /\ m[dst] # from /\ (\E p \in c : p.addr = m[dst] /\ is_connected(p))
    THEN {<<m[dst]>>}
    ELSE Orderings(FloodFilter(c, ign, from))

\* get_dest_sockaddr after the insert: the possible returned vectors.
Resolve(m, c, ign, from, dst) ==
    IF m[dst] # NoAddr THEN {<<m[dst]>>} ELSE Orderings(FloodFilter(c, ign, from))

(* ------------------------------ registry ------------------------------ *)
Init ==
    /\ cache = {}
    /\ map = [v \in Vips |-> NoAddr]
    /\ ignore_idle \in BOOLEAN
    /\ now = 0
    /\ claimant = [v \in Vips |-> [addr |-> NoAddr, re |-> FALSE]]
    /\ registered = {}
    /\ demoted = {}
    /\ lock = NoTask
    /\ ret = [op |-> "init"]
    /\ queue = <<>>
    /\ closed = FALSE
    /\ pc = [t \in Tasks |-> "idle"]
    /\ loc = [t \in Tasks |-> NoItem]
    /\ cur = NoItem
    /\ idx = 0
    /\ sends = <<>>
    /\ nextId = 1
    /\ pending = {}
    /\ enqOrder = <<>>
    /\ started = {}
    /\ done = {}
    /\ vetoIn = {}
    /\ vetoOut = {}
    /\ routed = {}
    /\ shortIds = {}
    /\ plugins = RegisterPlugins

\* peer_mut(addr, event_send, func) with func = touch, as the receive loop calls it.
PeerMutOp(addr) ==
    /\ lock = NoTask
    /\ LET c1 == EntryOrInsert(cache, addr, now)
           peer == CHOOSE p \in c1 : p.addr = addr
       IN cache' = (c1 \ {peer}) \cup {Touch(peer, now)}
    /\ registered' = registered \cup {addr}
    /\ demoted' = demoted \ {addr}

PeerMut(addr) ==
    /\ PeerMutOp(addr)
    /\ ret' = [op |-> "peer_mut", addr |-> addr, existed |-> HasKey(cache, addr)]
    /\ UNCHANGED coreVars
    /\ UNCHANGED <<map, ignore_idle, now, claimant, lock, sendVars, workerVars>>

Remove(addr) ==
    /\ lock = NoTask
    /\ cache' = CacheRemove(cache, addr)
    /\ map' = MapAfterRemove(map, addr)
    /\ registered' = registered \ {addr}
    /\ demoted' = demoted \ {addr}
    /\ ret' = [op |-> "remove", addr |-> addr, existed |-> HasKey(cache, addr)]
    /\ UNCHANGED coreVars
    /\ UNCHANGED <<ignore_idle, now, claimant, lock, sendVars, workerVars>>

\* The lazy idle check applied to the registered peer addr.
MarkIdle(addr) ==
    /\ lock = NoTask
    /\ HasKey(cache, addr)
    /\ cache' = {IF p.addr = addr THEN MarkIdleIfStale(p, now) ELSE p : p \in cache}
    /\ demoted' = IF \E p \in cache : p.addr = addr /\ now - p.last >= IdleThreshold
                  THEN demoted \cup {addr} ELSE demoted
    /\ ret' = [op |-> "mark_idle", addr |-> addr]
    /\ UNCHANGED coreVars
    /\ UNCHANGED <<map, ignore_idle, now, claimant, registered, lock, sendVars, workerVars>>

GetDestSockaddrOp(from, src, dst) ==
    /\ lock = NoTask
    /\ map' = MapInsert(map, src, from)
    /\ claimant' = [claimant EXCEPT ![src] =
                        [addr |-> from, re |-> @.re \/ @.addr \notin {NoAddr, from}]]

GetDestSockaddr(from, src, dst) ==
    /\ GetDestSockaddrOp(from, src, dst)
    /\ \E val \in Resolve(map', cache, ignore_idle, from, dst) :
           ret' = [op |-> "get_dest_sockaddr", from |-> from, src |-> src,
                   dst |-> dst, val |-> val]
    /\ UNCHANGED coreVars
    /\ UNCHANGED <<cache, ignore_idle, now, registered, demoted, lock, sendVars, workerVars>>

\* A snapshot whose online count leaves out the idle peers.
InfoOnlineConnectedOnly(c) == Cardinality({p \in c : is_connected(p)})

\* server_info: the two counts of the snapshot.
InfoOnline(c) == Cardinality(c)
InfoIdle(c) == Cardinality({p \in c : is_idle(p)})

ServerInfo ==
    /\ lock = NoTask
    /\ ret' = [op |-> "server_info", online |-> InfoOnline(cache), idle |-> InfoIdle(cache)]
    /\ UNCHANGED coreVars
    /\ UNCHANGED <<regVars, lock, sendVars, workerVars>>

Tick ==
    /\ now < MaxTicks * TickSeconds
    /\ now' = now + TickSeconds
    /\ ret' = [op |-> "tick"]
    /\ UNCHANGED coreVars
    /\ UNCHANGED <<cache, map, ignore_idle, claimant, registered, demoted, lock, sendVars, workerVars>>

(* ------------------------------ send path ----------------------------- *)
\* A size that forgets the number of destinations.
SendLanSizeLenOnly(packet, addrs) == Len(packet)

\* send_lan: size = addrs.len() * packet.len(), computed before the lock is taken.
SendLanSize(packet, addrs) == Len(addrs) * Len(packet)

\* An item that loses its last destination.
SendLanItemDropLast(packet, addrs) ==
    [payload |-> packet, addrs |-> SubSeq(addrs, 1, Len(addrs) - 1)]

\* send_lan: the item handed to packet_tx.send.
SendLanItem(packet, addrs) == [payload |-> packet, addrs |-> addrs]

\* OutPacket::split: the payload and the destinations it carried.
Split(out) == <<out.packet, out.addrs>>
\* A broadcast that leaves out the peers that are not Connected.
BroadcastAddrsConnected(c) == Orderings({p.addr : p \in {q \in c : is_connected(q)}})
\* send_broadcast: the keys of the cache, in the order its iteration yields them.
BroadcastAddrs(c) == Orderings({p.addr : p \in c})
\* send_broadcast: size = addrs.len() * len.
SendBroadcastSize(packet, addrs) == Len(addrs) * Len(packet)

\* A channel that hands over the newest value first.
ChannelSendFront(q, item) == <<item>> \o q

\* mpsc::Sender::send once a slot is free: the value goes to the tail of the channel.
ChannelSend(q, item) == Append(q, item)
\* A channel that takes a value whatever it already holds.
HasCapacityAlways(q) == TRUE

\* The channel has a free slot.
HasCapacity(q) == Len(q) < QueueBound

\* A send that gives up on a full channel, as try_send does.
SendFailsWhenFull(q, cl) == cl \/ Len(q) >= QueueBound

\* packet_tx.send(..).await is an Err exactly when the receiver is gone.
SendFails(q, cl) == cl

\* send_lan up to its first poll of packet_tx.send: the write lock is taken and is
\* held until the call returns.
SendLanStart(t, packet, addrs) ==
    /\ lock = NoTask
    /\ nextId <= MaxItems
    /\ lock' = t
    /\ pc' = [pc EXCEPT ![t] = "sending"]
    /\ loc' = [loc EXCEPT ![t] =
                  [id |-> nextId, op |-> "send_lan",
                   item |-> SendLanItem(packet, addrs),
                   size |-> SendLanSize(packet, addrs)]]
    /\ pending' = pending \cup {[id |-> nextId, payload |-> packet, addrs |-> addrs]}
    /\ nextId' = nextId + 1
    /\ ret' = [op |-> "call", task |-> t]
    /\ UNCHANGED coreVars
    /\ UNCHANGED <<regVars, queue, closed, enqOrder, workerVars>>

SendLan(t, packet, addrs) == pc[t] = "idle" /\ SendLanStart(t, packet, addrs)

\* send_broadcast up to its first poll of packet_tx.send.
SendBroadcastStart(t, out) ==
    /\ lock = NoTask
    /\ nextId <= MaxItems
    /\ \E addrs \in BroadcastAddrs(cache) :
          /\ loc' = [loc EXCEPT ![t] =
                        [id |-> nextId, op |-> "send_broadcast",
                         item |-> [payload |-> Split(out)[1], addrs |-> addrs],
                         size |-> SendBroadcastSize(Split(out)[1], addrs)]]
          /\ pending' = pending \cup
                          {[id |-> nextId, payload |-> out.packet, addrs |-> addrs]}
    /\ lock' = t
    /\ pc' = [pc EXCEPT ![t] = "sending"]
    /\ nextId' = nextId + 1
    /\ ret' = [op |-> "call", task |-> t]
    /\ UNCHANGED coreVars
    /\ UNCHANGED <<regVars, queue, closed, enqOrder, workerVars>>

SendBroadcast(t, out) == pc[t] = "idle" /\ SendBroadcastStart(t, out)

\* packet_tx.send polled while the channel is full: the task parks.
Suspend(t) ==
    /\ pc[t] = "sending"
    /\ ~SendFails(queue, closed)
    /\ ~HasCapacity(queue)
    /\ pc' = [pc EXCEPT ![t] = "suspended"]
    /\ ret' = [op |-> "suspend", task |-> t]
    /\ UNCHANGED coreVars
    /\ UNCHANGED <<regVars, lock, queue, closed, loc, nextId, pending, enqOrder, workerVars>>

\* packet_tx.send completes: Ok(size) is returned and the lock guard dropped.
Enqueue(t) ==
    /\ pc[t] \in {"sending", "suspended"}
    /\ ~SendFails(queue, closed)
    /\ HasCapacity(queue)
    /\ queue' = ChannelSend(queue, [id |-> loc[t].id, payload |-> loc[t].item.payload,
                                    addrs |-> loc[t].item.addrs])
    /\ enqOrder' = Append(enqOrder, loc[t].id)
    /\ ret' = [op |-> "send_ok", task |-> t, id |-> loc[t].id, call |-> loc[t].op,
               val |-> loc[t].size, suspended |-> (pc[t] = "suspended")]
    /\ pc' = [pc EXCEPT ![t] = "idle"]
    /\ loc' = [loc EXCEPT ![t] = NoItem]
    /\ lock' = NoTask
    /\ UNCHANGED coreVars
    /\ UNCHANGED <<regVars, closed, nextId, pending, workerVars>>

\* packet_tx.send fails because the receiver is gone: `?` returns the SendError.
EnqueueErr(t) ==
    /\ pc[t] \in {"sending", "suspended"}
    /\ SendFails(queue, closed)
    /\ ret' = [op |-> "send_err", task |-> t, id |-> loc[t].id, call |-> loc[t].op,
               val |-> loc[t].item, asked |-> {x \in pending : x.id = loc[t].id},
               suspended |-> (pc[t] = "suspended")]
    /\ pc' = [pc EXCEPT ![t] = "idle"]
    /\ loc' = [loc EXCEPT ![t] = NoItem]
    /\ lock' = NoTask
    /\ pending' = {x \in pending : x.id # loc[t].id}
    /\ UNCHANGED coreVars
    /\ UNCHANGED <<regVars, queue, closed, nextId, enqOrder, workerVars>>

(* ------------------------------ SendWorker ---------------------------- *)
\* The worker takes the oldest item off the channel.
WorkerRecv ==
    /\ ~closed
    /\ cur = NoItem
    /\ queue # <<>>
    /\ cur' = Head(queue)
    /\ queue' = Tail(queue)
    /\ idx' = 0
    /\ sends' = <<>>
    /\ ret' = [op |-> "worker_recv", id |-> Head(queue).id]
    /\ UNCHANGED coreVars
    /\ UNCHANGED <<regVars, lock, closed, pc, loc, nextId, pending, enqOrder, started, done>>

\* One send_to on the socket: the next destination of the current item.
WorkerSendTo ==
    /\ ~closed
    /\ cur # NoItem
    /\ idx < Len(cur.addrs)
    /\ sends' = Append(sends, [dest |-> cur.addrs[idx + 1], payload |-> cur.payload])
    /\ idx' = idx + 1
    /\ started' = started \cup {cur.id}
    /\ ret' = [op |-> "worker_send", id |-> cur.id]
    /\ UNCHANGED coreVars
    /\ UNCHANGED <<regVars, lock, queue, closed, pc, loc, cur, nextId, pending, enqOrder,
                   done>>

\* The current item has been sent to all its destinations.
WorkerDone ==
    /\ ~closed
    /\ cur # NoItem
    /\ idx = Len(cur.addrs)
    /\ done' = done \cup {cur.id}
    /\ ret' = [op |-> "worker_done", id |-> cur.id, sends |-> sends,
               asked |-> {x \in pending : x.id = cur.id}]
    /\ pending' = {x \in pending : x.id # cur.id}
    /\ cur' = NoItem
    /\ idx' = 0
    /\ sends' = <<>>
    /\ UNCHANGED coreVars
    /\ UNCHANGED <<regVars, lock, queue, closed, pc, loc, nextId, enqOrder, started>>

\* A transport fault or shutdown ends the worker: the receiver is dropped and
\* with it the items still queued.
WorkerTerminate ==
    /\ ~closed
    /\ closed' = TRUE
    /\ queue' = <<>>
    /\ cur' = NoItem
    /\ idx' = 0
    /\ sends' = <<>>
    /\ pending' = {x \in pending : \E t \in Tasks : loc[t].id = x.id}
    /\ ret' = [op |-> "worker_exit"]
    /\ UNCHANGED coreVars
    /\ UNCHANGED <<regVars, lock, pc, loc, nextId, enqOrder, started, done>>

NextSend ==
    \/ \E a \in SendAddrs : PeerMut(a)
    \/ \E a \in SendAddrs : Remove(a)
    \/ \E t \in Tasks, p \in Payloads, d \in DestLists : SendLan(t, p, d)
    \/ \E t \in Tasks, o \in OutPackets : SendBroadcast(t, o)
    \/ \E t \in Tasks : Suspend(t)
    \/ \E t \in Tasks : Enqueue(t)
    \/ \E t \in Tasks : EnqueueErr(t)
    \/ WorkerRecv
    \/ WorkerSendTo
    \/ WorkerDone
    \/ WorkerTerminate

\* The send path does not read the ignore-idle flag: it is explored with the flag off.
InitSend == Init /\ ignore_idle = FALSE

SpecSend == InitSend /\ [][NextSend]_vars

\* The send path on one payload, for the checks of progress.
NextLive ==
    \/ PeerMut("A")
    \/ \E t \in Tasks, d \in {<<>>, <<"A">>} : SendLan(t, <<1>>, d)
    \/ \E t \in Tasks : SendBroadcast(t, [packet |-> <<1>>, addrs |-> <<>>])
    \/ \E t \in Tasks : Suspend(t)
    \/ \E t \in Tasks : Enqueue(t)
    \/ \E t \in Tasks : EnqueueErr(t)
    \/ WorkerRecv
    \/ WorkerSendTo
    \/ WorkerDone
    \/ WorkerTerminate

\* The runtime keeps polling the SendWorker and a producer whose send can complete.
SendFairness ==
    /\ WF_vars(WorkerRecv)
    /\ WF_vars(WorkerSendTo)
    /\ WF_vars(WorkerDone)
    /\ \A t \in Tasks : WF_vars(Enqueue(t)) /\ WF_vars(EnqueueErr(t))

SpecSendFair == InitSend /\ [][NextLive]_vars /\ SendFairness

(* ----------------------------- ServerCore ----------------------------- *)
\* A received datagram: its payload and what the codec finds in its header, Short
\* when the payload cannot hold the addressing header.
Short == <<>>
Headers == {Short, <<"v1", "v2">>, <<"v2", "v2">>}
\* The payload of the datagrams and the number of datagrams explored.
FramePayload == <<2, 3>>
MaxFrames == 2
\* PacketCodec: the OutAddr of a frame, or Short.
Decode(frame) == frame.hdr

\* A pipeline that runs on after a plugin refused the frame.
AfterHookIgnoreVeto(k, ok, hook, next) == IF k < Len(PluginList) THEN hook ELSE next

\* A pipeline that asks the first plugin only.
AfterHookFirstOnly(k, ok, hook, next) == IF ~ok THEN "idle" ELSE next

\* The hook verdict `ok` of plugin k: the pipeline goes on to the next plugin, to
\* the stage after the hook, or drops the frame.
AfterHook(k, ok, hook, next) ==
    IF ~ok THEN "idle" ELSE IF k < Len(PluginList) THEN hook ELSE next

\* recv_from returns a datagram; it is tagged with the sender's real address.
FrameRecv(t, from, payload, hdr) ==
    /\ pc[t] = "idle"
    /\ nextId <= MaxFrames
    /\ pc' = [pc EXCEPT ![t] = "touch"]
    /\ loc' = [loc EXCEPT ![t] = [id |-> nextId, op |-> "frame", from |-> from,
                                  frame |-> [payload |-> payload, hdr |-> hdr],
                                  k |-> 1, dests |-> <<>>,
                                  inCalls |-> <<>>, outCalls |-> <<>>]]
    /\ nextId' = nextId + 1
    /\ ret' = [op |-> "recv", task |-> t, id |-> nextId]
    /\ UNCHANGED <<regVars, lock, queue, closed, pending, enqOrder, workerVars>>
    /\ UNCHANGED coreVars

\* The sender's Peer is registered or refreshed.
FrameTouch(t) ==
    /\ pc[t] = "touch"
    /\ PeerMutOp(loc[t].from)
    /\ pc' = [pc EXCEPT ![t] = "in_hook"]
    /\ ret' = [op |-> "touch", task |-> t, id |-> loc[t].id]
    /\ UNCHANGED <<map, ignore_idle, now, claimant, lock, queue, closed, loc, nextId,
                   pending, enqOrder, workerVars>>
    /\ UNCHANGED coreVars

\* in_packet of plugin loc[t].k returns Ok (ok) or Err.
InHook(t, ok) ==
    /\ pc[t] = "in_hook"
    /\ LET nxt == AfterHook(loc[t].k, ok, "in_hook", "decode")
       IN /\ pc' = [pc EXCEPT ![t] = nxt]
          /\ loc' = [loc EXCEPT ![t] =
                        IF nxt = "idle" THEN NoItem
                        ELSE [@ EXCEPT !.k = IF nxt = "in_hook" THEN @ + 1 ELSE 1,
                                       !.inCalls = Append(@, PluginList[loc[t].k])]]
    /\ vetoIn' = IF ok THEN vetoIn ELSE vetoIn \cup {loc[t].id}
    /\ ret' = [op |-> "in_packet", task |-> t, id |-> loc[t].id,
               plugin |-> PluginList[loc[t].k], ok |-> ok,
               calls |-> Append(loc[t].inCalls, PluginList[loc[t].k])]
    /\ UNCHANGED <<regVars, lock, queue, closed, nextId, pending, enqOrder, workerVars,
                   vetoOut, routed, shortIds, plugins>>

\* A receive loop that returns the decode error to its caller and ends.
AfterDecodePropagate(oa) == IF oa = Short THEN "dead" ELSE "resolve"

\* What the receive loop does with the outcome of the decode: a frame too short
\* is logged and dropped, and the loop is ready for the next datagram.
AfterDecode(oa) == IF oa = Short THEN "idle" ELSE "resolve"

\* The codec reads the addressing header; a frame too short for it is dropped.
FrameDecode(t) ==
    /\ pc[t] = "decode"
    /\ LET nxt == AfterDecode(Decode(loc[t].frame))
       IN /\ pc' = [pc EXCEPT ![t] = nxt]
          /\ loc' = [loc EXCEPT ![t] = IF nxt = "resolve" THEN @ ELSE NoItem]
    /\ shortIds' = IF Decode(loc[t].frame) = Short THEN shortIds \cup {loc[t].id}
                   ELSE shortIds
    /\ ret' = [op |-> "decode", task |-> t, id |-> loc[t].id,
               short |-> (Decode(loc[t].frame) = Short)]
    /\ UNCHANGED <<regVars, lock, queue, closed, nextId, pending, enqOrder, workerVars>>
    /\ UNCHANGED <<vetoIn, vetoOut, routed, plugins>>

\* get_dest_sockaddr(from, out_addr) for the frame.
FrameResolve(t) ==
    /\ pc[t] = "resolve"
    /\ LET oa == Decode(loc[t].frame)
       IN /\ GetDestSockaddrOp(loc[t].from, oa[1], oa[2])
          /\ \E val \in Resolve(map', cache, ignore_idle, loc[t].from, oa[2]) :
                /\ loc' = [loc EXCEPT ![t].dests = val]
                /\ ret' = [op |-> "get_dest_sockaddr", from |-> loc[t].from,
                           src |-> oa[1], dst |-> oa[2], val |-> val]
    /\ pc' = [pc EXCEPT ![t] = "out_hook"]
    /\ routed' = routed \cup {loc[t].id}
    /\ UNCHANGED <<cache, ignore_idle, now, registered, demoted, lock, queue, closed,
                   nextId, pending, enqOrder, workerVars, vetoIn, vetoOut, shortIds,
                   plugins>>

\* out_packet of plugin loc[t].k returns Ok (ok) or Err.
OutHook(t, ok) ==
    /\ pc[t] = "out_hook"
    /\ LET nxt == AfterHook(loc[t].k, ok, "out_hook", "send")
       IN /\ pc' = [pc EXCEPT ![t] = nxt]
          /\ loc' = [loc EXCEPT ![t] =
                        IF nxt = "idle" THEN NoItem
                        ELSE [@ EXCEPT !.k = IF nxt = "out_hook" THEN @ + 1 ELSE 1,
                                       !.outCalls = Append(@, PluginList[loc[t].k])]]
    /\ vetoOut' = IF ok THEN vetoOut ELSE vetoOut \cup {loc[t].id}
    /\ ret' = [op |-> "out_packet", task |-> t, id |-> loc[t].id,
               plugin |-> PluginList[loc[t].k], ok |-> ok, dests |-> loc[t].dests,
               calls |-> Append(loc[t].outCalls, PluginList[loc[t].k])]
    /\ UNCHANGED <<regVars, lock, queue, closed, nextId, pending, enqOrder, workerVars,
                   vetoIn, routed, shortIds, plugins>>

\* send_lan(packet, addrs) for the frame, up to its first poll of packet_tx.send.
FrameSend(t) ==
    /\ pc[t] = "send"
    /\ lock = NoTask
    /\ lock' = t
    /\ pc' = [pc EXCEPT ![t] = "sending"]
    /\ loc' = [loc EXCEPT ![t] =
                  [id |-> loc[t].id, op |-> "send_lan",
                   item |-> SendLanItem(loc[t].frame.payload, loc[t].dests),
                   size |-> SendLanSize(loc[t].frame.payload, loc[t].dests)]]
    /\ pending' = pending \cup {[id |-> loc[t].id, payload |-> loc[t].frame.payload,
                                 addrs |-> loc[t].dests]}
    /\ ret' = [op |-> "call", task |-> t]
    /\ UNCHANGED <<regVars, queue, closed, nextId, enqOrder, workerVars>>
    /\ UNCHANGED coreVars

NextCore ==
    \/ \E t \in Tasks, a \in SendAddrs, h \in Headers : FrameRecv(t, a, FramePayload, h)
    \/ \E t \in Tasks : FrameTouch(t)
    \/ \E t \in Tasks, ok \in BOOLEAN : InHook(t, ok)
    \/ \E t \in Tasks : FrameDecode(t)
    \/ \E t \in Tasks : FrameResolve(t)
    \/ \E t \in Tasks, ok \in BOOLEAN : OutHook(t, ok)
    \/ \E t \in Tasks : FrameSend(t)
    \/ \E t \in Tasks : Enqueue(t)
    \/ WorkerRecv
    \/ WorkerSendTo
    \/ WorkerDone

SpecCore == Init /\ [][NextCore]_vars

(* ----------------------------- get_plugin ----------------------------- *)
\* get_plugin(tag, closure): the closure is handed the instance registered under
\* the tag, or None; main passes the closure that sets the block rules.
GetPlugin(tag, rules) ==
    /\ LET i == FindPlugin(plugins, tag)
           b == IF i = 0 THEN None ELSE plugins[i]
       IN /\ plugins' = IF i = 0 THEN plugins
                         ELSE [plugins EXCEPT ![i] = BlockRulesClosure(b, rules)]
          /\ ret' = [op |-> "get_plugin", tag |-> tag, rules |-> rules,
                     found |-> (i # 0), before |-> plugins]
    /\ UNCHANGED <<regVars, lock, sendVars, workerVars, vetoIn, vetoOut, routed, shortIds>>

NextPlugin ==
    \/ \E tag \in PluginTags, rules \in RuleSets : GetPlugin(tag, rules)
    \/ \E a \in SendAddrs : PeerMut(a)
    \/ \E a \in SendAddrs, s \in Vips, d \in Vips : GetDestSockaddr(a, s, d)

SpecPlugin == Init /\ [][NextPlugin]_vars

(* ------------------------- calls of concurrent tasks ------------------ *)
\* A task calls an operation of the shared PeerManager; the call waits in
\* inner.write() / inner.read() until the lock is granted.
SendCalls == {"send_lan", "send_broadcast"}
TaskCall(t, c) ==
    /\ pc[t] = "idle"
    /\ c.op \in SendCalls =>
          nextId + Cardinality({u \in Tasks : pc[u] = "wait" /\ loc[u].op \in SendCalls})
              <= MaxItems
    /\ pc' = [pc EXCEPT ![t] = "wait"]
    /\ loc' = [loc EXCEPT ![t] = c]
    /\ ret' = [op |-> "task_call", task |-> t, call |-> c.op]
    /\ UNCHANGED coreVars
    /\ UNCHANGED <<regVars, lock, queue, closed, nextId, pending, enqOrder, workerVars>>

Return(t) ==
    /\ pc' = [pc EXCEPT ![t] = "idle"]
    /\ loc' = [loc EXCEPT ![t] = NoItem]

TaskPeerMut(t) ==
    /\ pc[t] = "wait" /\ loc[t].op = "peer_mut"
    /\ PeerMutOp(loc[t].addr)
    /\ Return(t)
    /\ ret' = [op |-> "peer_mut", addr |-> loc[t].addr,
               existed |-> HasKey(cache, loc[t].addr), task |-> t]
    /\ UNCHANGED coreVars
    /\ UNCHANGED <<map, ignore_idle, now, claimant, lock, queue, closed, nextId, pending,
                   enqOrder, workerVars>>

TaskRemove(t) ==
    /\ pc[t] = "wait" /\ loc[t].op = "remove"
    /\ lock = NoTask
    /\ cache' = CacheRemove(cache, loc[t].addr)
    /\ map' = MapAfterRemove(map, loc[t].addr)
    /\ registered' = registered \ {loc[t].addr}
    /\ demoted' = demoted \ {loc[t].addr}
    /\ Return(t)
    /\ ret' = [op |-> "remove", addr |-> loc[t].addr,
               existed |-> HasKey(cache, loc[t].addr), task |-> t]
    /\ UNCHANGED coreVars
    /\ UNCHANGED <<ignore_idle, now, claimant, lock, queue, closed, nextId, pending,
                   enqOrder, workerVars>>

TaskServerInfo(t) ==
    /\ pc[t] = "wait" /\ loc[t].op = "server_info"
    /\ lock = NoTask
    /\ Return(t)
    /\ ret' = [op |-> "server_info", online |-> InfoOnline(cache),
               idle |-> InfoIdle(cache), task |-> t]
    /\ UNCHANGED coreVars
    /\ UNCHANGED <<regVars, lock, queue, closed, nextId, pending, enqOrder, workerVars>>

\* A write guard that is dropped as soon as the insert is done.
LockAfterLearnReleased(t) == NoTask

\* `let inner = &mut self.inner.write().await`: the guard lives to the end of
\* get_dest_sockaddr, so the lock is still the caller's after map.insert.
LockAfterLearn(t) == t

\* A guard that outlives the call.
LockAfterReturnHeld(t) == t

\* The guard is dropped when get_dest_sockaddr returns.
LockAfterReturn(t) == NoTask

\* get_dest_sockaddr, first half: the write lock is granted and the source
\* virtual IP is learned.
GdLearn(t) ==
    /\ pc[t] = "wait" /\ loc[t].op = "get_dest_sockaddr"
    /\ GetDestSockaddrOp(loc[t].from, loc[t].src, loc[t].dst)
    /\ lock' = LockAfterLearn(t)
    /\ pc' = [pc EXCEPT ![t] = "gd_lookup"]
    /\ loc' = [loc EXCEPT ![t] =
                  [id |-> 0, op |-> "get_dest_sockaddr", from |-> loc[t].from,
                   src |-> loc[t].src, dst |-> loc[t].dst,
                   learned |-> map', cacheLearned |-> cache]]
    /\ ret' = [op |-> "gd_learn", task |-> t]
    /\ UNCHANGED coreVars
    /\ UNCHANGED <<cache, ignore_idle, now, registered, demoted, queue, closed, nextId,
                   pending, enqOrder, workerVars>>

\* get_dest_sockaddr, second half: the lookup of the destination, the flood
\* filters when it is not learned, and the return.
GdLookup(t) ==
    /\ pc[t] = "gd_lookup"
    /\ \E val \in Resolve(map, cache, ignore_idle, loc[t].from, loc[t].dst) :
           ret' = [op |-> "get_dest_sockaddr", from |-> loc[t].from, src |-> loc[t].src,
                   dst |-> loc[t].dst, val |-> val, task |-> t,
                   learned |-> loc[t].learned, seen |-> map,
                   cacheLearned |-> loc[t].cacheLearned, cacheSeen |-> cache]
    /\ lock' = LockAfterReturn(t)
    /\ Return(t)
    /\ UNCHANGED coreVars
    /\ UNCHANGED <<regVars, queue, closed, nextId, pending, enqOrder, workerVars>>

TaskSendLan(t) ==
    /\ pc[t] = "wait" /\ loc[t].op = "send_lan"
    /\ SendLanStart(t, loc[t].packet, loc[t].addrs)

TaskSendBroadcast(t) ==
    /\ pc[t] = "wait" /\ loc[t].op = "send_broadcast"
    /\ SendBroadcastStart(t, loc[t].out)

\* Concurrent resolutions over a registry whose peers come and go.
ResolveCalls ==
    {[id |-> 0, op |-> "get_dest_sockaddr", from |-> a, src |-> s, dst |-> d] :
        a \in SendAddrs, s \in Vips, d \in Vips}

NextAtomic ==
    \/ \E t \in Tasks, c \in ResolveCalls : TaskCall(t, c)
    \/ \E t \in Tasks : GdLearn(t)
    \/ \E t \in Tasks : GdLookup(t)
    \/ \E a \in Addrs : PeerMut(a)
    \/ \E a \in Addrs : Remove(a)

SpecAtomic == Init /\ [][NextAtomic]_vars

\* Resolution, statistics and send_lan over a registry whose peers register, fall
\* silent and are demoted; nothing drains the queue.
NextFrame ==
    \/ \E a \in SendAddrs : PeerMut(a)
    \/ \E a \in SendAddrs : MarkIdle(a)
    \/ Tick
    \/ \E a \in SendAddrs, s \in Vips, d \in Vips : GetDestSockaddr(a, s, d)
    \/ ServerInfo
    \/ SendLan("t1", <<1>>, <<"A">>)
    \/ Suspend("t1")
    \/ Enqueue("t1")

SpecFrame == Init /\ [][NextFrame]_vars

\* Broadcasts over a registry whose peers register, leave, fall silent and are
\* demoted, with the ignore-idle flag on or off; the SendWorker takes one item.
NextBroadcast ==
    \/ \E a \in SendAddrs : PeerMut(a)
    \/ \E a \in SendAddrs : Remove(a)
    \/ \E a \in SendAddrs : MarkIdle(a)
    \/ Tick
    \/ \E t \in Tasks, d \in {<<>>, <<"A">>} :
          SendBroadcast(t, [packet |-> <<1>>, addrs |-> d])
    \/ \E t \in Tasks : Suspend(t)
    \/ \E t \in Tasks : Enqueue(t)
    \/ WorkerRecv

SpecBroadcast == Init /\ [][NextBroadcast]_vars

\* One call of each operation, by either task, over one peer and one payload.
ProgressCalls ==
    {[id |-> 0, op |-> "peer_mut", addr |-> "A"],
     [id |-> 0, op |-> "remove", addr |-> "A"],
     [id |-> 0, op |-> "get_dest_sockaddr", from |-> "A", src |-> "v1", dst |-> "v2"],
     [id |-> 0, op |-> "server_info"],
     [id |-> 0, op |-> "send_lan", packet |-> <<1>>, addrs |-> <<"A">>],
     [id |-> 0, op |-> "send_broadcast", out |-> [packet |-> <<1>>, addrs |-> <<>>]]}

\* The lock is granted to the waiting call of task t.
LockGrant(t) ==
    \/ TaskPeerMut(t)
    \/ TaskRemove(t)
    \/ TaskServerInfo(t)
    \/ GdLearn(t)
    \/ TaskSendLan(t)
    \/ TaskSendBroadcast(t)

\* The steps by which a call in progress or the SendWorker moves on.
ProgressSteps ==
    \/ \E t \in Tasks : LockGrant(t)
    \/ \E t \in Tasks : GdLookup(t)
    \/ \E t \in Tasks : Suspend(t)
    \/ \E t \in Tasks : Enqueue(t)
    \/ \E t \in Tasks : EnqueueErr(t)
    \/ WorkerRecv
    \/ WorkerSendTo
    \/ WorkerDone

NextProgress ==
    \/ \E t \in Tasks, c \in ProgressCalls : TaskCall(t, c)
    \/ ProgressSteps
    \/ WorkerTerminate

\* The lock is granted fairly: a call that finds the lock free again and again is
\* granted it; a call that holds the lock runs on.
LockFairness ==
    \A t \in Tasks : SF_vars(LockGrant(t)) /\ WF_vars(GdLookup(t))

SpecProgress == InitSend /\ [][NextProgress]_vars /\ SendFairness /\ LockFairness

NextReg ==
    \/ \E a \in Addrs : PeerMut(a)
    \/ \E a \in Addrs : Remove(a)
    \/ \E a \in Addrs : MarkIdle(a)
    \/ \E a \in Addrs, s \in Vips, d \in Vips : GetDestSockaddr(a, s, d)
    \/ ServerInfo
    \/ Tick

SpecReg == Init /\ [][NextReg]_vars
(* ------------------------------- claims ------------------------------- *)
IsResolve == ret.op = "get_dest_sockaddr"
\* The call flooded: the destination has no learned entry after the learn step.
IsFlood == IsResolve /\ map[ret.dst] = NoAddr
StateOf(a) == (CHOOSE p \in cache : p.addr = a).state
SilentFor(p) == now - p.last

\* C1: a frame addressed to virtual IP V, from a sender other than V's last
\* claimant R and with a virtual source other than V, resolves to exactly [R]; the
\* last real address that claimed V is the one that counts.
C1_LastClaimantWins ==
    (IsResolve /\ ret.dst # ret.src /\ claimant[ret.dst].addr # NoAddr
               /\ ret.from # claimant[ret.dst].addr)
        => ret.val = <<claimant[ret.dst].addr>>

\* A frame resolved to a claimant that took the virtual IP over from another address.
C1_Witness ==
    /\ IsResolve /\ ret.dst # ret.src
    /\ claimant[ret.dst].re
    /\ ret.from # claimant[ret.dst].addr
    /\ ret.val = <<claimant[ret.dst].addr>>

\* C2: when the destination has no learned entry, the result lists each registered
\* address other than the sender exactly once, only the Connected ones when
\* ignore-idle is on, and never the sender.
C2_FloodSet ==
    IsFlood =>
        LET expected == IF ignore_idle
                        THEN {a \in registered : StateOf(a) = "Connected"} \ {ret.from}
                        ELSE registered \ {ret.from}
        IN /\ Range(ret.val) = expected
           /\ Len(ret.val) = Cardinality(expected)
           /\ ret.from \notin Range(ret.val)

\* A flood from a registered sender, with ignore-idle on, that reaches a Connected
\* peer and leaves out an Idle one.
C2_Witness ==
    /\ IsFlood /\ ignore_idle
    /\ ret.from \in registered
    /\ ret.val # <<>>
    /\ \E a \in registered \ {ret.from} : StateOf(a) = "Idle"

\* C3: the registry holds at most one Peer per real address, and the snapshot's
\* online value is the number of addresses registered and not removed, the
\* Connected and the Idle ones alike.
C3_UniqueAndOnline ==
    /\ \A p, q \in cache : p.addr = q.addr => p = q
    /\ {p.addr : p \in cache} = registered
    /\ ret.op = "server_info" => ret.online = Cardinality(registered)

\* A snapshot that counts a Connected and an Idle peer.
C3_Witness ==
    /\ ret.op = "server_info"
    /\ ret.online >= 2
    /\ \E a, b \in registered : StateOf(a) = "Idle" /\ StateOf(b) = "Connected"

Enqueued == Range(enqOrder)
\* Frame f has nothing in the outbound channel, now or ever before.
NeverEnqueued(f) ==
    /\ f \notin Enqueued
    /\ \A i \in 1..Len(queue) : queue[i].id # f
    /\ cur.id # f

\* C5: a frame refused by a plugin's in_packet is never routed and never enqueued;
\* a frame refused by a plugin's out_packet is never enqueued, whatever
\* destinations routing computed for it.
C5_VetoBlocksForwarding ==
    /\ \A f \in vetoIn : f \notin routed /\ NeverEnqueued(f)
    /\ \A f \in vetoOut : f \in routed /\ NeverEnqueued(f)
    /\ \A t \in Tasks : pc[t] \in {"send", "sending", "suspended"}
                           => loc[t].id \notin vetoIn \cup vetoOut

\* out_packet refuses a frame that routing resolved to a non-empty destination
\* set, after an earlier frame was refused by in_packet.
C5_Witness ==
    /\ ret.op = "out_packet" /\ ~ret.ok
    /\ ret.dests # <<>>
    /\ ret.id \in vetoOut
    /\ vetoIn # {}

\* The socket sends that the request x = (payload, [d1..dn]) calls for, in order.
FanOut(x) == [i \in 1..Len(x.addrs) |-> [dest |-> x.addrs[i], payload |-> x.payload]]
Asked(id) == {x \in pending : x.id = id}

\* C6: the sends issued for an item are, at every moment, the first sends its
\* request calls for: one per listed destination, in list order, each with the
\* request's payload; when the SendWorker is done with the item they are all of
\* them, and no send exists outside the SendWorker's current item.
C6_FanOut ==
    /\ cur = NoItem => sends = <<>>
    /\ cur # NoItem =>
          /\ Cardinality(Asked(cur.id)) = 1
          /\ idx = Len(sends)
          /\ \A x \in Asked(cur.id) :
                /\ Len(sends) <= Len(x.addrs)
                /\ sends = SubSeq(FanOut(x), 1, Len(sends))
    /\ ret.op = "worker_done" =>
          /\ Cardinality(ret.asked) = 1
          /\ \A x \in ret.asked : ret.sends = FanOut(x)

\* The SendWorker has finished an item with two destinations.
C6_Witness ==
    /\ ret.op = "worker_done"
    /\ Len(ret.sends) = 2
    /\ ret.sends[1].payload = ret.sends[2].payload

\* C7: when a send has been issued for an item, every item enqueued before it has
\* had all its sends issued.
C7_Fifo ==
    \A i, j \in 1..Len(enqOrder) :
        (i < j /\ enqOrder[j] \in started) => enqOrder[i] \in done

\* Two items with sends, the second enqueued while the first was still queued.
C7_Witness ==
    /\ Len(enqOrder) >= 2
    /\ enqOrder[1] \in started
    /\ enqOrder[2] \in started
    /\ ret.op = "worker_send" /\ ret.id = enqOrder[2]

Count(seq, x) == Cardinality({i \in 1..Len(seq) : seq[i] = x})

\* C8: the channel never holds more than its bound; the item of a producer that
\* waits for a slot stays with the producer, not enqueued and not lost; and an item
\* whose send returned Ok was enqueued once.
C8_Backpressure ==
    /\ Len(queue) <= QueueBound
    /\ \A t \in Tasks : pc[t] \in {"sending", "suspended"} =>
          /\ Count(enqOrder, loc[t].id) = 0
          /\ \E x \in Asked(loc[t].id) :
                loc[t].item = [payload |-> x.payload, addrs |-> x.addrs]
    /\ \A t \in Tasks : pc[t] = "suspended" => lock = t
    /\ \A f \in Enqueued : Count(enqOrder, f) = 1
    /\ ret.op = "send_ok" => Count(enqOrder, ret.id) = 1

\* A producer that was suspended on the full channel has enqueued its item.
C8_Witness ==
    /\ ret.op = "send_ok"
    /\ ret.suspended
    /\ Len(queue) = QueueBound

Waiting(t) == pc[t] \in {"sending", "suspended"}

\* C9: a send returns Err only when the SendWorker is gone and Ok only when it is
\* not; the Err carries the caller's item, nothing of the call is in the channel,
\* and the step that returns it leaves the peer map, the learned table and the
\* channel as they were; every call that reached packet_tx.send returns, also one
\* that found the channel full.
C9_EnqueueError ==
    /\ [](ret.op = "send_err" =>
            /\ closed
            /\ NeverEnqueued(ret.id)
            /\ \E x \in ret.asked : ret.val = [payload |-> x.payload, addrs |-> x.addrs])
    /\ [](ret.op = "send_ok" => ~closed)
    /\ [][(\E t \in Tasks : EnqueueErr(t)) => UNCHANGED <<cache, map, queue, enqOrder>>]_vars
    /\ \A t \in Tasks : Waiting(t) ~> (pc[t] = "idle")

\* A producer suspended on the full channel got the error once the worker was gone.
C9_Witness ==
    /\ ret.op = "send_err"
    /\ ret.suspended
    /\ \E t \in Tasks : ret.task = t /\ pc[t] = "idle"
    /\ closed
    /\ cache # {}

RECURSIVE WorkerBytes(_, _)
\* The bytes the SendWorker attempts for an item: the payload once per destination.
WorkerBytes(item, n) ==
    IF n = 0 THEN 0 ELSE Len(item.payload) + WorkerBytes(item, n - 1)

\* C10: the value returned with Ok is the payload length times the number of
\* destinations of the item just enqueued, which is the bytes the SendWorker will
\* attempt for it; for send_lan the item is the one the caller passed.
C10_ByteAccounting ==
    ret.op = "send_ok" =>
        LET item == queue[Len(queue)]
        IN /\ item.id = ret.id
           /\ ret.val = Len(item.payload) * Len(item.addrs)
           /\ ret.val = WorkerBytes(item, Len(item.addrs))
           /\ Len(item.addrs) = 0 => ret.val = 0

\* send_broadcast returned the bytes of two destinations.
C10_Witness ==
    /\ ret.op = "send_ok"
    /\ ret.call = "send_broadcast"
    /\ ret.val = 2 * Len(queue[Len(queue)].payload)
    /\ ret.val > 0

\* C11: a frame too short for the addressing header is dropped at decode: it is
\* never routed (so nothing is learned from it) and never enqueued, no task of the
\* receive loop ends because of it, and the task that dropped it is ready for the
\* next datagram.
C11_MalformedDropped ==
    /\ \A f \in shortIds : f \notin routed /\ NeverEnqueued(f)
    /\ \A t \in Tasks : pc[t] # "dead" /\ loc[t].id \notin shortIds
    /\ (ret.op = "decode" /\ ret.short) => pc[ret.task] = "idle" /\ ret.id \in shortIds

\* After a short frame was dropped, a later frame went through to the channel.
C11_Witness ==
    /\ ret.op = "send_ok"
    /\ \E f \in shortIds : f < ret.id
    /\ ret.id \in routed

\* C12: on each hook the plugins a frame has been shown to are the first plugins of
\* the registration list, in that order and each once; a frame that a plugin
\* refused is shown to no further plugin; a frame that passed a hook was shown to
\* every plugin.
C12_PluginOrder ==
    /\ ret.op \in {"in_packet", "out_packet"} =>
          /\ ret.calls = SubSeq(PluginList, 1, Len(ret.calls))
          /\ ret.plugin = PluginList[Len(ret.calls)]
    /\ \A t \in Tasks : loc[t].id \notin vetoIn \cup vetoOut
    /\ \A t \in Tasks :
          /\ pc[t] \in {"decode", "resolve", "out_hook", "send"} => loc[t].inCalls = PluginList
          /\ pc[t] = "send" => loc[t].outCalls = PluginList
          /\ pc[t] = "in_hook" => loc[t].inCalls = SubSeq(PluginList, 1, loc[t].k - 1)
          /\ pc[t] = "out_hook" => loc[t].outCalls = SubSeq(PluginList, 1, loc[t].k - 1)

\* The last plugin of the list refuses on out_packet a frame that every plugin
\* accepted on in_packet, while another frame was refused by the first plugin.
C12_Witness ==
    /\ ret.op = "out_packet" /\ ~ret.ok
    /\ ret.calls = PluginList
    /\ vetoIn # {}

\* C13: get_plugin with the closure of main sets the rules of the instance
\* registered under the tag and of no other instance; when no instance has the tag
\* the call changes nothing: the instances and their order, the peer map and the
\* learned table are as before.
C13_GetPlugin ==
    /\ [](ret.op = "get_plugin" =>
            /\ ret.found = (\E i \in 1..Len(ret.before) : ret.before[i].tag = ret.tag)
            /\ Len(plugins) = Len(ret.before)
            /\ \A i \in 1..Len(plugins) :
                  plugins[i] = IF ret.before[i].tag = ret.tag
                               THEN [tag |-> ret.tag, rules |-> ret.rules]
                               ELSE ret.before[i]
            /\ ~ret.found => plugins = ret.before)
    /\ [][ret'.op = "get_plugin" => cache' = cache /\ map' = map]_vars

\* get_plugin finds no instance for its tag, in a relay that has peers, a learned
\* address and an instance whose rules an earlier call has set.
C13_Witness ==
    /\ ret.op = "get_plugin" /\ ~ret.found
    /\ cache # {}
    /\ \E v \in Vips : map[v] # NoAddr
    /\ \E i \in 1..Len(plugins) : plugins[i].rules # DefaultRules

\* C14: a resolution looks up in the very table its own learn produced, over the
\* peers registered at that moment: no other call's learn, registration or removal
\* falls between the two halves, so concurrent resolutions return what they return
\* when run one after the other in the order of their lock grants, and the learned
\* table is the one the last claimants leave.
C14_LearnResolveAtomic ==
    /\ ret.op = "get_dest_sockaddr" =>
          /\ ret.seen = ret.learned
          /\ ret.seen[ret.src] = ret.from
          /\ ret.cacheSeen = ret.cacheLearned
          /\ ret.val \in Resolve(ret.learned, ret.cacheLearned, ignore_idle, ret.from, ret.dst)
          /\ ret.dst = ret.src => ret.val = <<ret.from>>
    /\ \A v \in Vips : map[v] = claimant[v].addr
    /\ \A t \in Tasks : pc[t] = "gd_lookup" => lock = t /\ map = loc[t].learned

\* A resolution returns while the other task waits for the lock with a frame that
\* claims the same virtual IP from another address.
C14_Witness ==
    /\ ret.op = "get_dest_sockaddr"
    /\ \E u \in Tasks \ {ret.task} :
          /\ pc[u] = "wait"
          /\ loc[u].src = ret.src
          /\ loc[u].from # ret.from
    /\ claimant[ret.src].re

\* C15: remove deletes the Peer of the address and nothing else: every learned
\* entry, those that map to the removed address included, stays as its last
\* claimant left it, so a frame for a virtual IP whose last claimant is no longer
\* registered is still resolved to that one address; removing an address that is
\* not registered changes neither the peer map nor the learned table.
C15_RemoveKeepsLearned ==
    /\ [](\A v \in Vips : map[v] = claimant[v].addr)
    /\ [](IsResolve /\ ret.dst # ret.src /\ claimant[ret.dst].addr \notin registered \cup {NoAddr}
            => ret.val = <<claimant[ret.dst].addr>>)
    /\ [][ret'.op = "remove" =>
            /\ map' = map
            /\ cache' = {p \in cache : p.addr # ret'.addr}
            /\ ~ret'.existed => cache' = cache]_vars

\* remove has deleted a registered peer and a learned entry still maps to it.
C15_Witness ==
    /\ ret.op = "remove" /\ ret.existed
    /\ ~HasKey(cache, ret.addr)
    /\ \E v \in Vips : map[v] = ret.addr

\* C16: with a SendWorker that keeps running and a lock that is granted fairly,
\* every call of peer_mut, remove, get_dest_sockaddr, server_info, send_lan and
\* send_broadcast returns; and in no reachable state with a call in progress are
\* the callers and the SendWorker all unable to move.
C16_CallsComplete ==
    /\ \A t \in Tasks : (pc[t] # "idle") ~> (pc[t] = "idle")
    /\ []((\E t \in Tasks : pc[t] # "idle") => ENABLED <<ProgressSteps>>_vars)

\* A producer is parked on the full channel with the lock in its hands, the other
\* task waits for the lock, and the SendWorker is in the middle of an item.
C16_Witness ==
    \E t \in Tasks, u \in Tasks :
        /\ pc[t] = "suspended" /\ lock = t
        /\ pc[u] = "wait"
        /\ cur # NoItem

\* C17: a frame whose destination virtual IP is its own source is resolved to the
\* sender's address alone, and whenever the destination has a learned address the
\* result is that one address, whoever the sender is and whether or not the
\* address is registered, Connected or Idle, with ignore-idle on or off.
C17_UnicastUnfiltered ==
    IsResolve =>
        /\ ret.dst = ret.src => ret.val = <<ret.from>>
        /\ claimant[ret.dst].addr # NoAddr =>
              /\ Len(ret.val) = 1
              /\ ret.val[1] = claimant[ret.dst].addr

\* With ignore-idle on, a frame for a virtual IP other than its source is resolved
\* to its own sender, a peer that the idle check has demoted.
C17_Witness ==
    /\ IsResolve /\ ignore_idle
    /\ ret.dst # ret.src
    /\ ret.val = <<ret.from>>
    /\ ret.from \in demoted

\* C18: get_dest_sockaddr sets the learned entry of the source virtual IP to the
\* sender and changes nothing else: no Peer is created, removed or changed (the
\* sender is not registered by it) and every other learned entry stays; server_info
\* and send_lan change neither the peer map nor the learned table.
C18_FrameCondition ==
    /\ [](\A a \in Addrs : HasKey(cache, a) <=> a \in registered)
    /\ [][ret'.op = "get_dest_sockaddr" =>
            /\ cache' = cache
            /\ map'[ret'.src] = ret'.from
            /\ \A v \in Vips \ {ret'.src} : map'[v] = map[v]]_vars
    /\ [][ret'.op \in {"server_info", "call", "suspend", "send_ok", "send_err"} =>
            cache' = cache /\ map' = map]_vars

\* A frame of an unregistered sender has been resolved while another virtual IP
\* has a learned address and a registered peer is Idle.
C18_Witness ==
    /\ IsResolve
    /\ ~HasKey(cache, ret.from)
    /\ \E v \in Vips \ {ret.src} : map[v] \notin {NoAddr, ret.from}
    /\ \E p \in cache : is_idle(p)

====
